---------------------------- MODULE Spec2Model ----------------------------
(***************************************************************************)
(* StudioFlow backend (Flask): a model of the request handlers of          *)
(* src/backend/app.py and of the services they call                        *)
(* (src/backend/services/*.py).                                            *)
(*                                                                         *)
(* Strings whose characters matter (comma separated lists, block texts,    *)
(* e-mail addresses, header values) are sequences of one-character         *)
(* strings, so that split, strip and replace are computed as Python        *)
(* computes them.                                                          *)
(***************************************************************************)
EXTENDS Integers, Sequences, FiniteSets, TLC

(***************************************************************************)
(* Python string helpers                                                   *)
(***************************************************************************)

\* All strings (sequences) over the alphabet S of length at most n.
SeqsUpTo(S, n) == UNION {[1..k -> S] : k \in 0..n}

Max2(a, b) == IF a >= b THEN a ELSE b

RECURSIVE SplitRec(_, _, _)
SplitRec(s, sep, cur) ==
    IF s = <<>> THEN <<cur>>
    ELSE IF Head(s) = sep THEN <<cur>> \o SplitRec(Tail(s), sep, <<>>)
    ELSE SplitRec(Tail(s), sep, Append(cur, Head(s)))

\* str.split(sep): the pieces between the separators; "" splits to [""].
Split(s, sep) == SplitRec(s, sep, <<>>)

RECURSIVE LStrip(_)
LStrip(s) == IF s # <<>> /\ Head(s) = " " THEN LStrip(Tail(s)) ELSE s

RECURSIVE RStrip(_)
RStrip(s) ==
    IF s # <<>> /\ s[Len(s)] = " " THEN RStrip(SubSeq(s, 1, Len(s) - 1)) ELSE s

\* str.strip()
Strip(s) == RStrip(LStrip(s))

\* [f(x) for x in xs if keep(x)] for the comprehension "strip and drop empties"
RECURSIVE StripNonEmpty(_)
StripNonEmpty(xs) ==
    IF xs = <<>> THEN <<>>
    ELSE IF Strip(Head(xs)) # <<>>
         THEN <<Strip(Head(xs))>> \o StripNonEmpty(Tail(xs))
         ELSE StripNonEmpty(Tail(xs))

\* [x] * n
Rep(x, n) == [i \in 1..n |-> x]

\* dict.get(key, default) for an optional string field; Absent (no string of
\* the model holds its character) marks a missing key.
Absent == <<"<absent>">>
GetOr(v, default) == IF v = Absent THEN default ELSE v

(***************************************************************************)
(* Bounds of the model                                                     *)
(***************************************************************************)
MaxLabelsLen == 3
MaxValuesLen == 5
MaxBlocks == 2
TicksPerSecond == 2     \* the clock's resolution: ticks in one second
MaxSlackTicks == 4      \* how far around the start and the expiry the clock is read
MaxRequests == 3        \* how many requests the server receives in one run
MaxCsvLen == 6          \* how many characters an uploaded CSV file has at most

\* timedelta(days=7)
SESSION_DAYS == 7

VARIABLES
    chartIn,     \* the data dict handed to process_chart_data
    chartOut,    \* its return value, NoResult before the call
    exportIn,    \* the content dict and the title handed to the exporters
    mdOut,       \* what export_to_markdown returned, NoResult before the call
    htmlOut,     \* what export_to_html returned, NoResult before the call
    now,         \* the clock (datetime.utcnow()), in ticks
    jwtLib,      \* which expiry rule the installed JWT library applies
    sessTok,     \* the token create_session_token returned, NoResult before
    issuedFor,   \* the arguments and the time of that call
    verifyOut,   \* the last call of verify_session_token: token, time, result
    uuIn,        \* the keyword arguments handed to update_user
    uuOut,       \* what update_user did with them, NoResult before the call
    idpUpdates,  \* the call auth.update_user of the identity provider received last
    workspaces,  \* the store under workspaces/: workspace id -> node
    invitesIdx,  \* the store under invites/: sanitized e-mail -> invite id -> node
    nextKey,     \* how many keys push() has generated
    reqs,        \* the requests in flight, one per worker slot
    conc,        \* how many requests the server handles at once
    served,      \* how many requests the server has received
    csvIn,       \* the file content handed to import_csv
    csvOut,      \* what import_csv returned for it, NoResult before the call
    csvBytes,    \* what export_to_csv returned for that result, NoResult before
    csvBack      \* what import_csv returned for those bytes, NoResult before

chartVars == <<chartIn, chartOut>>
exportVars == <<exportIn, mdOut, htmlOut>>
tokenVars == <<now, jwtLib, sessTok, issuedFor, verifyOut>>
uuVars == <<uuIn, uuOut>>
idpVars == <<idpUpdates>>
storeVars == <<workspaces, invitesIdx, nextKey>>
serverVars == <<storeVars, reqs, conc, served>>
csvVars == <<csvIn, csvOut, csvBytes, csvBack>>
vars == <<chartVars, exportVars, tokenVars, uuVars, idpVars, serverVars, csvVars>>

\* What an action of one service leaves alone.
notChart == <<exportVars, tokenVars, uuVars, idpVars, serverVars, csvVars>>
notExport == <<chartVars, tokenVars, uuVars, idpVars, serverVars, csvVars>>
notToken == <<chartVars, exportVars, uuVars, idpVars, serverVars, csvVars>>
notUpdateUser == <<chartVars, exportVars, tokenVars, csvVars>>
notServer == <<chartVars, exportVars, tokenVars, uuVars, csvVars>>
notCsv == <<chartVars, exportVars, tokenVars, uuVars, idpVars, serverVars>>

\* No value yet: the empty function, which no record or non-empty result equals.
NoResult == <<>>

\* Python's None where a dict or a record may stand.
PyNone == [py_none |-> TRUE]
\* Python's None where a one-chunk string (an id, a name) may stand.
NoneStr == "<None>"

(***************************************************************************)
(* The parts of the state a specification does not exercise stay as here.  *)
(***************************************************************************)
ChartIdle == chartIn = [labels |-> Absent, values |-> Absent] /\ chartOut = NoResult

ExportIdle ==
    /\ exportIn = [content |-> [blocks |-> <<>>], title |-> <<"T">>]
    /\ mdOut = NoResult
    /\ htmlOut = NoResult

TokenIdle ==
    /\ now = 0
    /\ jwtLib = "exp_le_now"
    /\ sessTok = NoResult
    /\ issuedFor = NoResult
    /\ verifyOut = NoResult

UpdateUserIdle == uuIn = <<>> /\ uuOut = NoResult

CsvIdle ==
    csvIn = <<>> /\ csvOut = NoResult /\ csvBytes = NoResult /\ csvBack = NoResult

\* A worker slot with no request.
NotCalled == [not_called |-> TRUE]
IdleReq ==
    [ep |-> "", hdr |-> Absent, body |-> <<>>, pc |-> "idle", user |-> PyNone,
     authed |-> FALSE, ran |-> FALSE, fbRet |-> NotCalled, ssRet |-> NotCalled,
     effects |-> {}, status |-> 0, resp |-> <<>>, key |-> NoneStr,
     wsName |-> Absent, exc |-> FALSE, seq |-> 0, overlapped |-> FALSE]

MaxSlots == 2
Slots == 1..MaxSlots

ServerIdle ==
    /\ idpUpdates = {}
    /\ workspaces = <<>>
    /\ invitesIdx = <<>>
    /\ nextKey = 1
    /\ reqs = [s \in Slots |-> IdleReq]
    /\ conc = 1
    /\ served = 0

(***************************************************************************)
(* GraphService.process_chart_data                                         *)
(***************************************************************************)
Digits == {"0", "1", "2", "3", "4", "5", "6", "7", "8", "9"}
LabelChars == {"a", ",", " "}
ValueChars == {"1", "a", ",", " "}
LabelPlaceholder == <<"L", "a", "b", "e", "l">>

\* float(tok) succeeds on a stripped token of decimal digits, and raises
\* ValueError on a token holding a letter or an inner space.
IsNumeric(tok) == tok # <<>> /\ \A i \in 1..Len(tok) : tok[i] \in Digits

DigitVal(c) ==
    CASE c = "0" -> 0 [] c = "1" -> 1 [] c = "2" -> 2 [] c = "3" -> 3
      [] c = "4" -> 4 [] c = "5" -> 5 [] c = "6" -> 6 [] c = "7" -> 7
      [] c = "8" -> 8 [] c = "9" -> 9

RECURSIVE FloatOf(_)
FloatOf(tok) ==
    IF tok = <<>> THEN 0
    ELSE 10 * FloatOf(SubSeq(tok, 1, Len(tok) - 1)) + DigitVal(tok[Len(tok)])

\* labels = [l.strip() for l in raw_labels.split(',') if l.strip()]
ParseLabels(raw) == StripNonEmpty(Split(raw, ","))

\* A mutant of ParseValues: a bad token is skipped instead of raising.
ParseValuesSkipBad(raw) ==
    LET toks == StripNonEmpty(Split(raw, ","))
        good == SelectSeq(toks, IsNumeric)
    IN  [i \in 1..Len(good) |-> FloatOf(good[i])]

\* try: values = [float(v.strip()) for v in raw_values.split(',') if v.strip()]
\* except ValueError: values = []
ParseValues(raw) ==
    LET toks == StripNonEmpty(Split(raw, ","))
    IN  IF \A i \in 1..Len(toks) : IsNumeric(toks[i])
        THEN [i \in 1..Len(toks) |-> FloatOf(toks[i])]
        ELSE <<>>

\* A mutant of PadLabels: the padding of generate_matplotlib_plot ("").
PadLabelsEmpty(labels, max_len) ==
    SubSeq(labels \o Rep(<<>>, max_len), 1, max_len)

\* labels = (labels + ["Label"] * max_len)[:max_len]
PadLabels(labels, max_len) ==
    SubSeq(labels \o Rep(LabelPlaceholder, max_len), 1, max_len)

\* values = (values + [0] * max_len)[:max_len]
PadValues(values, max_len) == SubSeq(values \o Rep(0, max_len), 1, max_len)

RECURSIVE SumSeq(_)
SumSeq(xs) == IF xs = <<>> THEN 0 ELSE Head(xs) + SumSeq(Tail(xs))

MaxSeq(xs) == CHOOSE m \in {xs[i] : i \in 1..Len(xs)} :
                  \A i \in 1..Len(xs) : xs[i] <= m
MinSeq(xs) == CHOOSE m \in {xs[i] : i \in 1..Len(xs)} :
                  \A i \in 1..Len(xs) : xs[i] >= m

\* The returned dict: labels, datasets[0].data and stats.  avg is kept as the
\* pair (sum, count) it is the quotient of; the colours and the title do not
\* depend on the parsed data and are left out.
process_chart_data(data) ==
    LET raw_labels == GetOr(data.labels, <<>>)
        raw_values == GetOr(data.values, <<>>)
        labels0 == ParseLabels(raw_labels)
        values0 == ParseValues(raw_values)
        max_len == Max2(Len(labels0), Len(values0))
        labels == PadLabels(labels0, max_len)
        values == PadValues(values0, max_len)
    IN  [labels |-> labels,
         data   |-> values,
         stats  |-> [sum |-> SumSeq(values),
                     avg |-> IF values # <<>> THEN <<SumSeq(values), Len(values)>>
                             ELSE <<0, 1>>,
                     max |-> IF values # <<>> THEN MaxSeq(values) ELSE 0,
                     min |-> IF values # <<>> THEN MinSeq(values) ELSE 0]]

ChartInputs ==
    [labels : SeqsUpTo(LabelChars, MaxLabelsLen) \cup {Absent},
     values : SeqsUpTo(ValueChars, MaxValuesLen) \cup {Absent}]

ProcessChartData ==
    /\ chartOut = NoResult
    /\ chartOut' = process_chart_data(chartIn)
    /\ UNCHANGED <<chartIn, notChart>>

(***************************************************************************)
(* ExportService.export_to_markdown, export_to_html, _clean_html           *)
(***************************************************************************)
RECURSIVE Flatten(_)
\* ''.join(parts)
Flatten(parts) == IF parts = <<>> THEN <<>> ELSE Head(parts) \o Flatten(Tail(parts))

\* The least index j > 1 of s with s[j] = c, 0 when there is none.
FirstAfterHead(s, c) ==
    IF \E j \in 2..Len(s) : s[j] = c
    THEN CHOOSE j \in 2..Len(s) : s[j] = c /\ \A k \in 2..(j - 1) : s[k] # c
    ELSE 0

RECURSIVE RemoveTags(_)
\* re.sub(r'<[^>]+>', '', text): a "<", one or more characters other than ">",
\* and the first ">" after them are removed, leftmost match first.
RemoveTags(s) ==
    IF s = <<>> THEN <<>>
    ELSE IF Head(s) = "<" /\ FirstAfterHead(s, ">") >= 3
         THEN RemoveTags(SubSeq(s, FirstAfterHead(s, ">") + 1, Len(s)))
         ELSE <<Head(s)>> \o RemoveTags(Tail(s))

RECURSIVE Replace(_, _, _)
\* str.replace(old, new): every non-overlapping occurrence, leftmost first.
Replace(s, old, new) ==
    IF s = <<>> THEN <<>>
    ELSE IF Len(s) >= Len(old) /\ SubSeq(s, 1, Len(old)) = old
         THEN new \o Replace(SubSeq(s, Len(old) + 1, Len(s)), old, new)
         ELSE <<Head(s)>> \o Replace(Tail(s), old, new)

\* A mutant of clean_html: the text is returned as it came.
clean_html_raw(text) == text

clean_html(text) ==
    LET t0 == RemoveTags(text)
        t1 == Replace(t0, <<"&", "n", "b", "s", "p", ";">>, <<" ">>)
        t2 == Replace(t1, <<"&", "l", "t", ";">>, <<"<">>)
        t3 == Replace(t2, <<"&", "g", "t", ";">>, <<">">>)
        t4 == Replace(t3, <<"&", "a", "m", "p", ";">>, <<"&">>)
    IN  Strip(t4)

\* block.get('type', 'p'); a type is one chunk, compared whole.
TypeAbsent == "<absent>"
BlockType(block) == IF block.type = TypeAbsent THEN "p" ELSE block.type

\* A mutant of MdPrefix: h3 is written as h2.
MdPrefixNoH3(block_type) ==
    CASE block_type = "h1" -> <<"#", " ">>
      [] block_type = "h2" -> <<"#", "#", " ">>
      [] block_type = "h3" -> <<"#", "#", " ">>
      [] OTHER -> <<>>

MdPrefix(block_type) ==
    CASE block_type = "h1" -> <<"#", " ">>
      [] block_type = "h2" -> <<"#", "#", " ">>
      [] block_type = "h3" -> <<"#", "#", "#", " ">>
      [] OTHER -> <<>>

\* A mutant of MdSkips: only a missing or empty text is skipped.
MdSkipsEmptyOnly(block) == GetOr(block.text, <<>>) = <<>>

\* text = block.get('text', '').strip(); if not text: continue
MdSkips(block) == Strip(GetOr(block.text, <<>>)) = <<>>

RECURSIVE MarkdownParts(_)
\* The list `markdown` after the loop over the blocks.
MarkdownParts(blocks) ==
    IF blocks = <<>> THEN <<>>
    ELSE LET block == Head(blocks)
             text  == clean_html(Strip(GetOr(block.text, <<>>)))
         IN  IF MdSkips(block) THEN MarkdownParts(Tail(blocks))
             ELSE << MdPrefix(BlockType(block)) \o text \o <<"\n">>, <<"\n">> >>
                  \o MarkdownParts(Tail(blocks))

export_to_markdown(content) == Flatten(MarkdownParts(content.blocks))

\* The fixed head and tail of the page, each one chunk; the head holds the title.
HtmlHead(title) == <<"<!DOCTYPE html>..<title>">> \o title
                   \o <<"</title>..<body>\n    <h1>">> \o title \o <<"</h1>\n">>
HtmlTail == <<"</body>\n</html>">>

HtmlTag(block_type) ==
    CASE block_type = "h1" -> "h1"
      [] block_type = "h2" -> "h2"
      [] block_type = "h3" -> "h3"
      [] OTHER -> "p"

\* content_html = block.get('content', ''); if not content_html.strip(): continue
HtmlSkips(block) == Strip(GetOr(block.content, <<>>)) = <<>>

RECURSIVE HtmlParts(_)
\* The entries appended to the list `html` by the loop over the blocks.
HtmlParts(blocks) ==
    IF blocks = <<>> THEN <<>>
    ELSE LET block == Head(blocks)
             tag   == HtmlTag(BlockType(block))
         IN  IF HtmlSkips(block) THEN HtmlParts(Tail(blocks))
             ELSE << <<"    <", tag, ">">> \o GetOr(block.content, <<>>)
                     \o <<"</", tag, ">", "\n">> >>
                  \o HtmlParts(Tail(blocks))

export_to_html(content, title) ==
    Flatten(<<HtmlHead(title)>> \o HtmlParts(content.blocks) \o <<HtmlTail>>)

BlockTypes == {TypeAbsent, "h1", "h2", "h3", "ul"}
BlockTexts == {Absent, <<" ">>, <<" ", "b", " ">>, <<"<", "i", ">", "c">>,
               <<"&", "l", "t", ";">>}
BlockContents == {Absent, <<" ">>, <<"<", "b", ">">>}
Blocks == [type : BlockTypes, text : BlockTexts, content : BlockContents]
Titles == {<<"T">>}

ExportInputs == [content : [blocks : SeqsUpTo(Blocks, MaxBlocks)], title : Titles]

ExportInit ==
    /\ exportIn \in ExportInputs
    /\ mdOut = NoResult
    /\ htmlOut = NoResult
    /\ ChartIdle /\ TokenIdle /\ UpdateUserIdle /\ ServerIdle /\ CsvIdle

ExportToMarkdown ==
    /\ mdOut = NoResult
    /\ mdOut' = [ret |-> export_to_markdown(exportIn.content)]
    /\ UNCHANGED <<exportIn, htmlOut, notExport>>

ExportToHtml ==
    /\ htmlOut = NoResult
    /\ htmlOut' = [ret |-> export_to_html(exportIn.content, exportIn.title)]
    /\ UNCHANGED <<exportIn, mdOut, notExport>>

ExportNext == ExportToMarkdown \/ ExportToHtml

SpecExport == ExportInit /\ [][ExportNext]_vars

\* What the claim says one emitted Markdown block is: the prefix of its type,
\* its text (trimmed, tags and entities cleaned) and a blank line.
MdBlockExpected(block) ==
    LET ty == IF block.type = TypeAbsent THEN "p" ELSE block.type
        prefix == IF ty = "h1" THEN <<"#", " ">>
                  ELSE IF ty = "h2" THEN <<"#", "#", " ">>
                  ELSE IF ty = "h3" THEN <<"#", "#", "#", " ">>
                  ELSE <<>>
    IN  prefix \o clean_html(Strip(block.text)) \o <<"\n", "\n">>

HtmlBlockExpected(block) ==
    LET ty == IF block.type \in {"h1", "h2", "h3"} THEN block.type ELSE "p"
    IN  <<"    <", ty, ">">> \o block.content \o <<"</", ty, ">", "\n">>

NonBlank(s) == s # Absent /\ \E i \in 1..Len(s) : s[i] # " "

MdKept == SelectSeq(exportIn.content.blocks, LAMBDA b : NonBlank(b.text))
HtmlKept == SelectSeq(exportIn.content.blocks, LAMBDA b : NonBlank(b.content))

\* C10: export_to_markdown writes exactly the blocks whose text is not blank,
\* in the input order, each as prefix + text + blank line; export_to_html writes
\* exactly the blocks whose content is not blank, in the input order, one tag
\* each, between the fixed head and tail.
ExportSkipsBlankBlocks ==
    /\ mdOut # NoResult =>
          mdOut.ret = Flatten([i \in 1..Len(MdKept) |-> MdBlockExpected(MdKept[i])])
    /\ htmlOut # NoResult =>
          htmlOut.ret = HtmlHead(exportIn.title)
                        \o Flatten([i \in 1..Len(HtmlKept) |->
                                        HtmlBlockExpected(HtmlKept[i])])
                        \o HtmlTail

\* C10's case: of two blocks the first is blank for Markdown and kept by HTML,
\* the second the other way round; both exporters have run.
ExportSkipsWitness ==
    /\ mdOut # NoResult
    /\ htmlOut # NoResult
    /\ Len(exportIn.content.blocks) = 2
    /\ exportIn.content.blocks[1] =
          [type |-> "h1", text |-> <<" ">>, content |-> <<"<", "b", ">">>]
    /\ exportIn.content.blocks[2] =
          [type |-> "h3", text |-> <<" ", "b", " ">>, content |-> Absent]
    /\ mdOut.ret = <<"#", "#", "#", " ", "b", "\n", "\n">>
    /\ htmlOut.ret = HtmlHead(exportIn.title)
                     \o <<"    <", "h1", ">", "<", "b", ">", "</", "h1", ">", "\n">>
                     \o HtmlTail
ChartInit ==
    /\ chartIn \in ChartInputs
    /\ chartOut = NoResult
    /\ ExportIdle /\ TokenIdle /\ UpdateUserIdle /\ ServerIdle /\ CsvIdle

SpecChart == ChartInit /\ [][ProcessChartData]_vars

RawLabels == GetOr(chartIn.labels, <<>>)
RawValues == GetOr(chartIn.values, <<>>)

\* C8: the returned labels and values both have the length of the longer
\* parsed sequence; the parsed entries are a prefix, in order; the missing
\* labels are "Label" and the missing values 0.
ChartPadding ==
    chartOut # NoResult =>
        LET pl == ParseLabels(RawLabels)
            pv == ParseValues(RawValues)
            n  == Max2(Len(pl), Len(pv))
        IN  /\ Len(chartOut.labels) = n
            /\ Len(chartOut.data) = n
            /\ \A i \in 1..n :
                   /\ chartOut.labels[i] =
                          IF i <= Len(pl) THEN pl[i] ELSE LabelPlaceholder
                   /\ chartOut.data[i] = IF i <= Len(pv) THEN pv[i] ELSE 0

\* C8's case: labels "a,a" and values "1,1,1" give three labels, the third
\* the placeholder, and the three values.
ChartPaddingWitness ==
    /\ chartOut # NoResult
    /\ chartIn.labels = <<"a", ",", "a">>
    /\ chartIn.values = <<"1", ",", "1", ",", "1">>
    /\ chartOut.labels = <<(<<"a">>), (<<"a">>), LabelPlaceholder>>
    /\ chartOut.data = <<1, 1, 1>>

\* Some token of the values string is non-empty after strip() and not a number.
HasBadToken(raw) ==
    \E i \in 1..Len(Split(raw, ",")) :
        LET t == Strip(Split(raw, ",")[i])
        IN  t # <<>> /\ \E j \in 1..Len(t) : t[j] \notin Digits

\* C9: one non-numeric token discards every parsed value: the returned values
\* are 0, one per parsed label, and the labels are the parsed labels.
ChartBadValueDiscardsAll ==
    (chartOut # NoResult /\ HasBadToken(RawValues)) =>
        LET pl == ParseLabels(RawLabels)
        IN  /\ chartOut.labels = pl
            /\ chartOut.data = Rep(0, Len(pl))

\* C9's case: values "1,a,1" with two labels.
ChartBadValueWitness ==
    /\ chartOut # NoResult
    /\ chartIn.labels = <<"a", ",", "a">>
    /\ chartIn.values = <<"1", ",", "a", ",", "1">>
    /\ chartOut.data = <<0, 0>>
    /\ chartOut.labels = <<(<<"a">>), (<<"a">>)>>

(***************************************************************************)
(* AuthService: session tokens (PyJWT, HS256)                              *)
(***************************************************************************)
\* self.secret_key
SECRET_KEY == "service-key"
OTHER_KEY == "other-key"

SessionSeconds == SESSION_DAYS * 24 * 60 * 60
SessionTicks == SessionSeconds * TicksPerSecond

\* jwt.encode writes a datetime claim as timegm(dt.utctimetuple()): whole
\* seconds, the fraction of the second dropped.
NumericDate(ticks) == ticks \div TicksPerSecond

\* A JWT: the algorithm of its header, the key that signed it and its payload.
Jwt(alg, key, payload) == [kind |-> alg, key |-> key, payload |-> payload]

\* A mutant of create_session_token: the token lives one day less.
create_session_token_short(user_id, email) ==
    Jwt("HS256", SECRET_KEY,
        [user_id |-> user_id, email |-> email,
         exp |-> NumericDate(now + SessionTicks - 24 * 60 * 60 * TicksPerSecond)])

\* payload = {user_id, email, exp: utcnow() + 7 days}; jwt.encode(..., HS256)
create_session_token(user_id, email) ==
    Jwt("HS256", SECRET_KEY,
        [user_id |-> user_id, email |-> email,
         exp |-> NumericDate(now + SessionTicks)])

\* The expiry rules of the two generations of the library: the newer one
\* compares exp with the clock read as a fraction (expired when exp <= now),
\* the older one with the clock cut to whole seconds (expired when exp < now).
JwtLibs == {"exp_le_now", "exp_lt_floor_now"}

JwtExpired(exp) ==
    IF jwtLib = "exp_le_now"
    THEN exp * TicksPerSecond <= now
    ELSE exp < now \div TicksPerSecond

\* jwt.decode(token, key, algorithms=['HS256']): the payload, or the exception.
jwt_decode(token, key) ==
    IF token.kind # "HS256" \/ token.key # key
    THEN [raised |-> "InvalidTokenError", payload |-> <<>>]
    ELSE IF "exp" \in DOMAIN token.payload /\ JwtExpired(token.payload.exp)
    THEN [raised |-> "ExpiredSignatureError", payload |-> <<>>]
    ELSE [raised |-> "", payload |-> token.payload]

\* A mutant of verify_session_token: the signing key is not checked.
verify_session_token_anykey(token) ==
    LET d == jwt_decode(token, token.key)
    IN  IF d.raised # "" THEN PyNone ELSE d.payload

verify_session_token(token) ==
    LET d == jwt_decode(token, SECRET_KEY)
    IN  IF d.raised # "" THEN PyNone ELSE d.payload

UserIds == {"uA", "uB"}
EmailA == <<"a", ".", "b">>
EmailC == <<"c">>
TokenEmails == {EmailA, EmailC, <<>>}

\* The times the clock is read at: around the start and around the expiry of
\* a token issued at the start.
ClockWindow ==
    (0..MaxSlackTicks)
    \cup ((SessionTicks - TicksPerSecond)..(SessionTicks + MaxSlackTicks + TicksPerSecond))

\* The tokens a client can present once a session token was issued: that
\* token, the same payload signed with another key, and the same payload
\* unsigned (alg none).
PresentedTokens ==
    IF sessTok = NoResult THEN {Jwt("HS256", OTHER_KEY, <<>>)}
    ELSE {sessTok, Jwt("HS256", OTHER_KEY, sessTok.payload),
          Jwt("none", SECRET_KEY, sessTok.payload)}

TokenInit ==
    /\ now \in 0..MaxSlackTicks
    /\ jwtLib \in JwtLibs
    /\ sessTok = NoResult
    /\ issuedFor = NoResult
    /\ verifyOut = NoResult
    /\ ChartIdle /\ ExportIdle /\ UpdateUserIdle /\ CsvIdle /\ ServerIdle

CreateSessionToken ==
    /\ sessTok = NoResult
    /\ \E user_id \in UserIds, email \in TokenEmails :
          /\ sessTok' = create_session_token(user_id, email)
          /\ issuedFor' = [user_id |-> user_id, email |-> email, at |-> now]
    /\ UNCHANGED <<now, jwtLib, verifyOut, notToken>>

AdvanceClock ==
    /\ \E t \in ClockWindow : t > now /\ now' = t
    /\ UNCHANGED <<jwtLib, sessTok, issuedFor, verifyOut, notToken>>

VerifySessionToken ==
    /\ \E token \in PresentedTokens :
          verifyOut' = [token |-> token, at |-> now,
                        ret |-> verify_session_token(token)]
    /\ UNCHANGED <<now, jwtLib, sessTok, issuedFor, notToken>>

TokenNext == CreateSessionToken \/ AdvanceClock \/ VerifySessionToken

SpecToken == TokenInit /\ [][TokenNext]_vars

IsOwnToken(token) == sessTok # NoResult /\ token = sessTok

\* The round trip gives back the arguments of create_session_token.
RoundTripClaims(ret) ==
    /\ ret # PyNone
    /\ ret.user_id = issuedFor.user_id
    /\ ret.email = issuedFor.email

\* The expiry written into the token, in ticks: the issue time cut to whole
\* seconds, plus 7 days.
ExpTick == (issuedFor.at \div TicksPerSecond) * TicksPerSecond + SessionTicks

\* C6 as stated: the issued token verifies to its user_id and email at every
\* time strictly before issue time + 7 days and to None at every time after
\* it; a token not signed with the service's key never verifies.
SessionRoundTripExact ==
    verifyOut # NoResult =>
        /\ (IsOwnToken(verifyOut.token)
              /\ verifyOut.at < issuedFor.at + SessionTicks)
           => RoundTripClaims(verifyOut.ret)
        /\ (IsOwnToken(verifyOut.token)
              /\ verifyOut.at > issuedFor.at + SessionTicks)
           => verifyOut.ret = PyNone
        /\ (verifyOut.token.key # SECRET_KEY \/ verifyOut.token.kind # "HS256")
           => verifyOut.ret = PyNone

\* C6, amended: the issued token verifies to its user_id and email at every
\* time strictly before its expiry, which is the issue time cut to whole
\* seconds plus 7 days, and to None at every time from one second after that
\* expiry on; a token not signed with the service's key never verifies.
SessionRoundTrip ==
    verifyOut # NoResult =>
        /\ (IsOwnToken(verifyOut.token) /\ verifyOut.at < ExpTick)
           => RoundTripClaims(verifyOut.ret)
        /\ (IsOwnToken(verifyOut.token)
              /\ verifyOut.at >= ExpTick + TicksPerSecond)
           => verifyOut.ret = PyNone
        /\ (verifyOut.token.key # SECRET_KEY \/ verifyOut.token.kind # "HS256")
           => verifyOut.ret = PyNone

\* C6's case: a token issued in the middle of a second was verified to its
\* claims before the expiry and, later, to None after it.
SessionRoundTripWitness ==
    /\ verifyOut # NoResult
    /\ IsOwnToken(verifyOut.token)
    /\ issuedFor.at % TicksPerSecond # 0
    /\ verifyOut.at >= ExpTick + TicksPerSecond
    /\ verifyOut.ret = PyNone

(***************************************************************************)
(* AuthService.update_user                                                 *)
(***************************************************************************)
ALLOWED_FIELDS == {"email", "display_name", "photo_url", "password", "disabled"}

\* A mutant of UpdateUserParams: only the None values are dropped.
UpdateUserParamsUnfiltered(kwargs) ==
    [k \in {f \in DOMAIN kwargs : kwargs[f] # NoneStr} |-> kwargs[k]]

\* params = {k: v for k, v in kwargs.items() if k in allowed and v is not None}
UpdateUserParams(kwargs) ==
    [k \in {f \in DOMAIN kwargs : f \in ALLOWED_FIELDS /\ kwargs[f] # NoneStr}
        |-> kwargs[k]]

\* update_user(uid, **kwargs) when auth.update_user answers (idp_ok) or
\* raises: the call made (none for empty params), the value returned, and
\* whether the exception is raised on to the caller.
update_user(uid, kwargs, idp_ok) ==
    LET params == UpdateUserParams(kwargs)
    IN  IF params = <<>>
        THEN [called |-> FALSE, params |-> params, ret |-> "None", raised |-> FALSE]
        ELSE IF idp_ok
        THEN [called |-> TRUE, params |-> params, ret |-> "user", raised |-> FALSE]
        ELSE [called |-> TRUE, params |-> params, ret |-> "None", raised |-> TRUE]

\* The call the provider received last, after update_user.
IdpAfter(uid, res) ==
    IF res.called THEN {[uid |-> uid, params |-> res.params]}
    ELSE idpUpdates

KwargNames == ALLOWED_FIELDS \cup {"role", "email_verified"}
KwargValues == {NoneStr, "v"}
KwargSets == UNION {[S -> KwargValues] : S \in SUBSET KwargNames}

UpdateUserInit ==
    /\ uuIn \in KwargSets
    /\ uuOut = NoResult
    /\ ChartIdle /\ ExportIdle /\ TokenIdle /\ ServerIdle /\ CsvIdle

UpdateUser ==
    /\ uuOut = NoResult
    /\ \E idp_ok \in BOOLEAN :
          LET res == update_user("uA", uuIn, idp_ok)
          IN  /\ uuOut' = res
              /\ idpUpdates' = IdpAfter("uA", res)
    /\ UNCHANGED <<uuIn, notUpdateUser, storeVars, reqs, conc, served>>

SpecUpdateUser == UpdateUserInit /\ [][UpdateUser]_vars

\* C7: whatever keyword fields update_user is given, the provider's update
\* call receives only allow-listed fields, and each allow-listed field that
\* has a value is passed on as given: the other fields are dropped, they do not
\* make the call fail or be refused.
UpdateUserAllowList ==
    /\ \A c \in idpUpdates : DOMAIN c.params \subseteq ALLOWED_FIELDS
    /\ uuOut # NoResult =>
          LET wanted == {f \in DOMAIN uuIn \cap ALLOWED_FIELDS : uuIn[f] # NoneStr}
          IN  /\ wanted # {} =>
                    /\ uuOut.called
                    /\ DOMAIN uuOut.params = wanted
                    /\ \A f \in wanted : uuOut.params[f] = uuIn[f]
              /\ wanted = {} => ~uuOut.called /\ ~uuOut.raised

\* C7's case: role and email_verified came with email and password; the call
\* went through with email and password alone.
UpdateUserWitness ==
    /\ uuOut # NoResult
    /\ DOMAIN uuIn = {"email", "password", "role", "email_verified"}
    /\ uuIn["role"] = "v"
    /\ uuOut.called /\ ~uuOut.raised
    /\ idpUpdates = {[uid |-> "uA",
                      params |-> [email |-> uuIn["email"], password |-> "v"]]}

(***************************************************************************)
(* CSVService: import_csv and export_to_csv over pandas                    *)
(***************************************************************************)
CsvChars == {"N", "A", "1", ",", "\n"}
Quote == "\""

\* A Python value of a cell, with its text as str()/repr() gives it.
PyInt(text) == [t |-> "int", v |-> text]
PyFloat(text) == [t |-> "float", v |-> text]
PyStr(text) == [t |-> "str", v |-> text]
\* numpy's NaN, the missing cell
NaN == [t |-> "float", v |-> <<"n", "a", "n">>]

\* The tokenizer of read_csv: fields between commas, records between line
\* ends, a quoted field taken whole with "" for a quote, blank lines skipped.
RECURSIVE Tokenize(_, _, _, _, _, _)
Tokenize(s, inQuote, seen, field, row, rows) ==
    IF s = <<>>
    THEN IF seen THEN Append(rows, Append(row, field)) ELSE rows
    ELSE LET c == Head(s)
             rest == Tail(s)
         IN  IF inQuote
             THEN IF c = Quote
                  THEN IF rest # <<>> /\ Head(rest) = Quote
                       THEN Tokenize(Tail(rest), TRUE, TRUE, Append(field, Quote),
                                     row, rows)
                       ELSE Tokenize(rest, FALSE, TRUE, field, row, rows)
                  ELSE Tokenize(rest, TRUE, TRUE, Append(field, c), row, rows)
             ELSE IF c = Quote
             THEN Tokenize(rest, TRUE, TRUE, field, row, rows)
             ELSE IF c = ","
             THEN Tokenize(rest, FALSE, TRUE, <<>>, Append(row, field), rows)
             ELSE IF c = "\n"
             THEN Tokenize(rest, FALSE, FALSE, <<>>, <<>>,
                           IF seen THEN Append(rows, Append(row, field)) ELSE rows)
             ELSE Tokenize(rest, FALSE, TRUE, Append(field, c), row, rows)

DigitChar(i) ==
    CASE i = 0 -> "0" [] i = 1 -> "1" [] i = 2 -> "2" [] i = 3 -> "3"
      [] i = 4 -> "4" [] i = 5 -> "5" [] i = 6 -> "6" [] i = 7 -> "7"
      [] i = 8 -> "8" [] OTHER -> "9"

\* A header cell without text is named after its position.
Unnamed(i) == <<"U", "n", "n", "a", "m", "e", "d", ":", " ", DigitChar(i)>>

\* How many of the first n names equal name.
Earlier(names, name, n) == Cardinality({j \in 1..n : names[j] = name})

\* The column names of read_csv: empty ones named by position, then a repeated
\* name X becomes X.1, X.2, ...
ColumnNames(header) ==
    LET filled == [i \in 1..Len(header) |->
                     IF header[i] = <<>> THEN Unnamed(i - 1) ELSE header[i]]
    IN  [i \in 1..Len(filled) |->
           LET k == Earlier(filled, filled[i], i - 1)
           IN  IF k = 0 THEN filled[i]
               ELSE filled[i] \o <<".", DigitChar(k)>>]

\* The texts read_csv takes for a missing value, among them the empty one.
NaValues ==
    {<<>>, <<"N", "A">>, <<"N", "a", "N">>, <<"n", "a", "n">>,
     <<"N", "U", "L", "L">>, <<"n", "u", "l", "l">>, <<"N", "/", "A">>,
     <<"n", "/", "a">>}

IsInt(text) == text # <<>> /\ \A i \in 1..Len(text) : text[i] \in Digits
IsDecimal(text) ==
    /\ Cardinality({i \in 1..Len(text) : text[i] = "."}) = 1
    /\ \A i \in 1..Len(text) : text[i] \in Digits \cup {"."}
    /\ Len(text) >= 2

RECURSIVE StripLeadingZeros(_)
StripLeadingZeros(d) ==
    IF Len(d) > 1 /\ Head(d) = "0" THEN StripLeadingZeros(Tail(d)) ELSE d

RECURSIVE StripTrailingZeros(_)
StripTrailingZeros(d) ==
    IF Len(d) > 1 /\ d[Len(d)] = "0"
    THEN StripTrailingZeros(SubSeq(d, 1, Len(d) - 1)) ELSE d

\* str() of the int a text parses to
IntText(text) == StripLeadingZeros(text)

\* repr() of the float a text parses to (no exponent for the sizes here)
FloatText(text) ==
    IF IsInt(text) THEN IntText(text) \o <<".", "0">>
    ELSE LET parts == Split(text, ".")
             whole == IF parts[1] = <<>> THEN <<"0">> ELSE IntText(parts[1])
             frac == IF parts[2] = <<>> THEN <<"0">> ELSE StripTrailingZeros(parts[2])
         IN  whole \o <<".">> \o frac

\* The dtype read_csv infers for a column from its texts: int64 when all are
\* integers, float64 when all are numbers or some are missing, else object.
ColumnType(texts) ==
    LET present == {i \in 1..Len(texts) : texts[i] \notin NaValues}
    IN  IF \A i \in present : IsInt(texts[i])
        THEN IF present = DOMAIN texts THEN "int" ELSE "float"
        ELSE IF \A i \in present : IsInt(texts[i]) \/ IsDecimal(texts[i])
        THEN "float"
        ELSE "str"

\* The value of one cell of a column of that dtype.
CellValue(type, text) ==
    IF text \in NaValues THEN NaN
    ELSE IF type = "int" THEN PyInt(IntText(text))
    ELSE IF type = "float" THEN PyFloat(FloatText(text))
    ELSE PyStr(text)

\* pd.read_csv(...): the frame, or the error it raises.  A first record longer
\* than the header makes its leading fields the index; a record longer than
\* that is an error; a shorter one is filled with missing values.
read_csv(content) ==
    LET records == Tokenize(content, FALSE, FALSE, <<>>, <<>>, <<>>)
    IN  IF records = <<>> THEN [raised |-> TRUE]
        ELSE LET header == Head(records)
                 data == Tail(records)
                 h == Len(header)
                 lead == IF data # <<>> /\ Len(data[1]) > h
                         THEN Len(data[1]) - h ELSE 0
                 text(r, j) == IF lead + j <= Len(data[r]) THEN data[r][lead + j]
                               ELSE <<>>
                 type(j) == ColumnType([r \in 1..Len(data) |-> text(r, j)])
             IN  IF \E r \in 1..Len(data) : Len(data[r]) > h + lead
                 THEN [raised |-> TRUE]
                 ELSE [raised |-> FALSE,
                       columns |-> ColumnNames(header),
                       cells |-> [r \in 1..Len(data) |->
                                    [j \in 1..h |-> CellValue(type(j), text(r, j))]]]

\* df.to_dict('records'): one dict per row, keyed by column name (a repeated
\* name keeps its last cell).
Records(columns, cells) ==
    LET names == {columns[j] : j \in 1..Len(columns)}
        last(n) == CHOOSE j \in 1..Len(columns) :
                      /\ columns[j] = n
                      /\ \A k \in 1..Len(columns) : columns[k] = n => k <= j
    IN  [r \in 1..Len(cells) |-> [n \in names |-> cells[r][last(n)]]]

\* for key in row: if pd.isna(row[key]): row[key] = ''
CleanNaN(row) == [n \in DOMAIN row |-> IF row[n] = NaN THEN PyStr(<<>>) ELSE row[n]]

\* CSVService.import_csv(file_content)
import_csv(file_content) ==
    LET df == read_csv(file_content)
    IN  IF df.raised THEN [success |-> FALSE]
        ELSE LET rows == Records(df.columns, df.cells)
             IN  [success |-> TRUE,
                  columns |-> df.columns,
                  rows |-> [r \in 1..Len(rows) |-> CleanNaN(rows[r])],
                  rowCount |-> Len(rows),
                  columnCount |-> Len(df.columns)]

RECURSIVE DoubleQuotes(_)
DoubleQuotes(s) ==
    IF s = <<>> THEN <<>>
    ELSE IF Head(s) = Quote THEN <<Quote, Quote>> \o DoubleQuotes(Tail(s))
    ELSE <<Head(s)>> \o DoubleQuotes(Tail(s))

\* csv.writer with QUOTE_MINIMAL: a field is quoted when it holds a comma, a
\* quote or a line end.
QuoteField(text) ==
    IF \E i \in 1..Len(text) : text[i] \in {",", Quote, "\n", "\r"}
    THEN <<Quote>> \o DoubleQuotes(text) \o <<Quote>>
    ELSE text

RECURSIVE JoinFields(_)
JoinFields(fields) ==
    IF Len(fields) = 1 THEN fields[1]
    ELSE fields[1] \o <<",">> \o JoinFields(Tail(fields))

\* A mutant of CsvLine: a record of one empty field is written as a blank line.
CsvLineBare(fields) == JoinFields([i \in 1..Len(fields) |-> QuoteField(fields[i])]) \o <<"\n">>

\* One record as csv.writer writes it; a record of one empty field is written
\* as "" so that it is not a blank line.
CsvLine(fields) ==
    IF fields = <<(<<>>)>> THEN <<Quote, Quote, "\n">>
    ELSE JoinFields([i \in 1..Len(fields) |-> QuoteField(fields[i])]) \o <<"\n">>

\* The text to_csv writes for a cell: nothing for a missing value.
CellText(value) == IF value = NaN THEN <<>> ELSE value.v

RECURSIVE ConcatAll(_)
ConcatAll(lines) ==
    IF lines = <<>> THEN <<>> ELSE Head(lines) \o ConcatAll(Tail(lines))

\* CSVService.export_to_csv(data): the frame of data['rows'] with the columns
\* data['columns'], written with a header line and without the index.
export_to_csv(data) ==
    LET columns == data.columns
        rows == data.rows
        line(r) == CsvLine([j \in 1..Len(columns) |-> CellText(rows[r][columns[j]])])
    IN  CsvLine(columns) \o ConcatAll([r \in 1..Len(rows) |-> line(r)])

CsvInputs == SeqsUpTo(CsvChars, MaxCsvLen)

CsvInit ==
    /\ csvIn \in CsvInputs
    /\ csvOut = NoResult /\ csvBytes = NoResult /\ csvBack = NoResult
    /\ ChartIdle /\ ExportIdle /\ TokenIdle /\ UpdateUserIdle /\ ServerIdle

\* import_csv on the uploaded file
ImportCsv ==
    /\ csvOut = NoResult
    /\ csvOut' = import_csv(csvIn)
    /\ UNCHANGED <<csvIn, csvBytes, csvBack, notCsv>>

\* export_to_csv on what the import returned
ExportToCsv ==
    /\ csvOut # NoResult /\ csvOut.success
    /\ csvBytes = NoResult
    /\ csvBytes' = [ret |-> export_to_csv(csvOut)]
    /\ UNCHANGED <<csvIn, csvOut, csvBack, notCsv>>

\* import_csv on the exported bytes
ReimportCsv ==
    /\ csvBytes # NoResult
    /\ csvBack = NoResult
    /\ csvBack' = import_csv(csvBytes.ret)
    /\ UNCHANGED <<csvIn, csvOut, csvBytes, notCsv>>

CsvNext == ImportCsv \/ ExportToCsv \/ ReimportCsv

SpecCsv == CsvInit /\ [][CsvNext]_vars

KeyNames == <<"k1", "k2", "k3", "k4", "k5", "k6">>
Key(i) == KeyNames[i]
UsedKeys == {Key(i) : i \in 1..(nextKey - 1)}
Ghost == "ghost"

\* The token strings of the model and what each one is.  A Firebase ID token
\* is verified by the identity provider; the others are JWTs.
TokenNames == {"fbA", "fbN", "ssB", "ssOld", "ssForged", "ssEmpty", "junk"}
TokenTable(name) ==
    CASE name = "fbA" -> Jwt("firebase", "idp", [uid |-> "uA", email |-> EmailA])
      [] name = "fbN" -> Jwt("firebase", "idp", [uid |-> "uN"])
      [] name = "ssB" ->
            Jwt("HS256", SECRET_KEY,
                [user_id |-> "uB", email |-> EmailC,
                 exp |-> NumericDate(now + SessionTicks)])
      [] name = "ssOld" ->
            Jwt("HS256", SECRET_KEY,
                [user_id |-> "uB", email |-> EmailC, exp |-> 0])
      [] name = "ssForged" ->
            Jwt("HS256", OTHER_KEY,
                [user_id |-> "uB", email |-> EmailC,
                 exp |-> NumericDate(now + SessionTicks)])
      [] name = "ssEmpty" -> Jwt("HS256", SECRET_KEY, <<>>)
      [] OTHER -> Jwt("garbage", "", <<>>)

\* The token a piece of a header is: one token string, or nothing that parses.
TokenOf(piece) ==
    IF Len(piece) = 1 THEN TokenTable(piece[1]) ELSE Jwt("garbage", "", <<>>)

\* auth.verify_id_token raises on anything but a valid ID token.
verify_firebase_token(token) ==
    IF token.kind = "firebase" THEN token.payload ELSE PyNone

\* Python's truth of a verification result: None and {} are false.
Truthy(decoded) == decoded # PyNone /\ decoded # NotCalled /\ decoded # <<>>

AuthResult(passed, status, error, user, fb, ss) ==
    [passed |-> passed, status |-> status, error |-> error, user |-> user,
     fbRet |-> fb, ssRet |-> ss]

\* A mutant of require_auth: the token is the last piece of the header.
require_auth_last_piece(hdr) ==
    IF hdr = Absent \/ hdr = <<>>
    THEN AuthResult(FALSE, 401, "No authorization header", PyNone, NotCalled, NotCalled)
    ELSE LET parts == Split(hdr, " ")
             token == TokenOf(parts[Len(parts)])
             fb == verify_firebase_token(token)
             ss == IF ~Truthy(fb) THEN verify_session_token(token) ELSE NotCalled
             decoded == IF Truthy(fb) THEN fb ELSE ss
         IN  IF ~Truthy(decoded)
             THEN AuthResult(FALSE, 401, "Invalid token", PyNone, fb, ss)
             ELSE AuthResult(TRUE, 0, "", decoded, fb, ss)

\* A mutant of require_auth: the session token is tried first.
require_auth_session_first(hdr) ==
    IF hdr = Absent \/ hdr = <<>>
    THEN AuthResult(FALSE, 401, "No authorization header", PyNone, NotCalled, NotCalled)
    ELSE LET parts == Split(hdr, " ")
         IN  IF Len(parts) < 2
             THEN AuthResult(FALSE, 401, "Authentication failed", PyNone,
                             NotCalled, NotCalled)
             ELSE LET token == TokenOf(parts[2])
                      ss == verify_session_token(token)
                      fb == IF ~Truthy(ss) THEN verify_firebase_token(token)
                            ELSE NotCalled
                      decoded == IF Truthy(ss) THEN ss ELSE fb
                  IN  IF ~Truthy(decoded)
                      THEN AuthResult(FALSE, 401, "Invalid token", PyNone, fb, ss)
                      ELSE AuthResult(TRUE, 0, "", decoded, fb, ss)

\* require_auth's decorated_function up to the call of the handler: the 401 it
\* answers, or the claims it stores in request.user.
require_auth(hdr) ==
    IF hdr = Absent \/ hdr = <<>>
    THEN AuthResult(FALSE, 401, "No authorization header", PyNone, NotCalled, NotCalled)
    ELSE LET parts == Split(hdr, " ")
         IN  IF Len(parts) < 2
             THEN \* auth_header.split(' ')[1] raises IndexError
                  AuthResult(FALSE, 401, "Authentication failed", PyNone,
                             NotCalled, NotCalled)
             ELSE LET token == TokenOf(parts[2])
                      fb == verify_firebase_token(token)
                      ss == IF ~Truthy(fb) THEN verify_session_token(token)
                            ELSE NotCalled
                      decoded == IF Truthy(fb) THEN fb ELSE ss
                  IN  IF ~Truthy(decoded)
                      THEN AuthResult(FALSE, 401, "Invalid token", PyNone, fb, ss)
                      ELSE AuthResult(TRUE, 0, "", decoded, fb, ss)

\* The /api routes, by handler.
Endpoints ==
    {"verify_token", "get_current_user", "update_profile", "update_password",
     "import_csv", "export_csv", "validate_csv", "get_history",
     "restore_version", "save_snapshot", "export_document", "get_workspace",
     "health_check", "invite_member", "get_user_invites", "respond_to_invite",
     "list_workspaces", "create_workspace", "process_graph"}

\* A mutant of Protected: the invite route lost its decorator.
ProtectedButInvite(ep) == ep \notin {"verify_token", "health_check", "invite_member"}

\* The routes decorated with @require_auth.
Protected(ep) == ep \notin {"verify_token", "health_check"}

\* request.user.get('uid') or request.user.get('user_id')
UidOf(user) ==
    IF "uid" \in DOMAIN user /\ user.uid # "" THEN user.uid
    ELSE IF "user_id" \in DOMAIN user THEN user.user_id
    ELSE NoneStr

\* request.user.get('uid')
UidOnly(user) == IF "uid" \in DOMAIN user THEN user.uid ELSE NoneStr

\* request.user.get('email')
EmailOf(user) == IF "email" \in DOMAIN user THEN user.email ELSE Absent

\* A mutant of SafeEmail: the e-mail is used as the key unchanged.
SafeEmailRaw(email) == email

\* email.replace('.', ',')
SafeEmail(email) == Replace(email, <<".">>, <<",">>)

\* "not x" for an optional string and for an optional id.
FalsyStr(x) == x = Absent \/ x = <<>>
FalsyId(x) == x = NoneStr \/ x = ""

(*** the store ***)
EmptyWs == [name |-> Absent, owner |-> NoneStr, members |-> <<>>, invites |-> <<>>]
EmptyInv == [email |-> Absent, status |-> NoneStr, invitedBy |-> NoneStr]
EmptyIdx == [workspaceId |-> NoneStr, workspaceName |-> Absent,
             invitedBy |-> NoneStr, status |-> NoneStr]

WsNode(wid) == IF wid \in DOMAIN workspaces THEN workspaces[wid] ELSE EmptyWs
WsInvite(wid, iid) ==
    IF iid \in DOMAIN WsNode(wid).invites THEN WsNode(wid).invites[iid] ELSE EmptyInv
IdxOf(safe) == IF safe \in DOMAIN invitesIdx THEN invitesIdx[safe] ELSE <<>>
IdxInvite(safe, iid) ==
    IF iid \in DOMAIN IdxOf(safe) THEN IdxOf(safe)[iid] ELSE EmptyIdx

\* db.reference('workspaces/<wid>/...') written: the node with that child set.
PutWs(wid, node) == (wid :> node) @@ workspaces
PutIdx(safe, iid, node) == (safe :> ((iid :> node) @@ IdxOf(safe))) @@ invitesIdx

(*** requests ***)
Headers ==
    {Absent, <<>>, <<"fbA">>, <<"Bearer", " ">>}
    \cup {<<"Bearer", " ", t>> : t \in TokenNames}

\* The invitations in the store, as (workspace, invite) pairs.
InvitePairs ==
    {<<w, i>> : w \in DOMAIN workspaces, i \in UsedKeys} \cap
    UNION {{<<w, i>> : i \in DOMAIN workspaces[w].invites} : w \in DOMAIN workspaces}

InviteBody(email, wid) == [email |-> email, workspaceId |-> wid]
RespondBody(iid, action, wid) ==
    [inviteId |-> iid, action |-> action, workspaceId |-> wid]

\* The bodies of the team routes: requests about what is in the store, the
\* same with one part missing, and requests that name ids of the client's own.
TeamBodies(ep) ==
    CASE ep = "get_workspace" -> [workspace_id : {Ghost}]
      [] ep = "invite_member" ->
            {InviteBody(Absent, Ghost), InviteBody(<<>>, Ghost),
             InviteBody(EmailA, NoneStr)}
            \cup {InviteBody(EmailA, w) : w \in DOMAIN workspaces \cup {Ghost}}
      [] ep = "respond_to_invite" ->
            {RespondBody(NoneStr, "accept", Ghost), RespondBody(Ghost, NoneStr, Ghost),
             RespondBody(Ghost, "accept", NoneStr)}
            \cup {RespondBody(i, a, w) :
                    w \in DOMAIN workspaces, a \in {"accept", "reject"},
                    i \in {Ghost} \cup UsedKeys}
      [] ep = "create_workspace" -> [name : {<<"W">>}]
      [] OTHER -> {<<>>}

\* The bodies of every route, the team routes with requests about what is in
\* the store or with a part missing.
Bodies(ep) ==
    CASE ep = "verify_token" -> [idToken : {Absent, <<"fbA">>, <<"junk">>}]
      [] ep = "update_profile" ->
            UNION {[F -> {"v"}] : F \in {{}, {"displayName"}, {"photoURL", "email"}}}
      [] ep = "update_password" ->
            [password : {Absent, <<"p", "w">>, <<"s", "e", "c", "r", "e", "t">>}]
      [] ep = "import_csv" -> [file : {"missing", "noname", "csv"}]
      [] ep = "validate_csv" -> [file : {"missing", "csv"}]
      [] ep = "save_snapshot" -> [content : {NoneStr, "doc"}]
      [] ep = "export_document" ->
            [format : {NoneStr, "pdf", "markdown", "html", "json", "docx"}]
      [] ep = "get_workspace" -> [workspace_id : {Ghost}]
      [] ep = "invite_member" ->
            {InviteBody(Absent, Ghost), InviteBody(EmailA, NoneStr)}
            \cup {InviteBody(EmailA, w) : w \in DOMAIN workspaces}
      [] ep = "respond_to_invite" ->
            {RespondBody(NoneStr, "accept", Ghost)}
            \cup {RespondBody(p[2], a, p[1]) :
                    p \in InvitePairs, a \in {"accept", "reject"}}
      [] ep = "create_workspace" -> [name : {Absent, <<"W">>}]
      [] OTHER -> {<<>>}

Done(r, status, resp) == [r EXCEPT !.pc = "done", !.status = status, !.resp = resp]
Err(r, status, msg) == Done(r, status, [error |-> msg])
\* The handler's except clause: the exception's text with the status it gives.
Caught(r, status, msg) == [Err(r, status, msg) EXCEPT !.exc = TRUE]
Effect(r, e) == [r EXCEPT !.effects = @ \cup {e}, !.ran = TRUE]

\* A request arrives at a route among eps with a header among hdrs and a body
\* among bodies[ep], at a free worker.  A protected route runs require_auth first,
\* which answers 401 itself or sets request.user and calls the handler; the
\* handler is what reads the body.
\* The requests other workers are in the middle of when worker s takes one.
InFlight(s) == {t \in Slots \ {s} : reqs[t].pc \notin {"idle", "done"}}

ReceiveFrom(s, eps, hdrs, bodies) ==
    /\ s <= conc
    /\ reqs[s].pc = "idle"
    /\ served < MaxRequests
    /\ served' = served + 1
    /\ \E ep \in eps, hdr \in hdrs :
        \E body \in bodies[ep] :
          /\ LET r == [IdleReq EXCEPT !.ep = ep, !.hdr = hdr, !.seq = served + 1,
                                      !.overlapped = (InFlight(s) # {})]
                 a == require_auth(hdr)
                 mine ==
                    IF ~Protected(ep) THEN [r EXCEPT !.pc = "handler", !.body = body]
                    ELSE IF a.passed
                    THEN [r EXCEPT !.pc = "handler", !.body = body, !.user = a.user,
                                   !.authed = TRUE, !.fbRet = a.fbRet,
                                   !.ssRet = a.ssRet,
                                   !.effects = {"idp_verify"}]
                    ELSE [Err(r, a.status, a.error) EXCEPT
                              !.fbRet = a.fbRet, !.ssRet = a.ssRet,
                              !.effects = IF a.fbRet = NotCalled THEN {}
                                          ELSE {"idp_verify"}]
             IN  reqs' = [t \in Slots |->
                            IF t = s THEN mine
                            ELSE IF t \in InFlight(s)
                            THEN [reqs[t] EXCEPT !.overlapped = TRUE]
                            ELSE reqs[t]]
    /\ UNCHANGED <<storeVars, conc, idpUpdates, notServer>>

Receive(s) == ReceiveFrom(s, Endpoints, Headers, [ep \in Endpoints |-> Bodies(ep)])

\* The response is sent and the worker is free again.
Reply(s) ==
    /\ reqs[s].pc = "done"
    /\ reqs' = [reqs EXCEPT ![s] = IdleReq]
    /\ UNCHANGED <<storeVars, conc, served, idpUpdates, notServer>>

AtHandler(s, ep) == reqs[s].pc = "handler" /\ reqs[s].ep = ep
SetReq(s, r) == reqs' = [reqs EXCEPT ![s] = r]
NoStore == UNCHANGED <<storeVars, conc, served, notServer>>

\* POST /api/auth/verify
VerifyToken(s) ==
    /\ AtHandler(s, "verify_token")
    /\ LET r == [reqs[s] EXCEPT !.ran = TRUE]
           id_token == r.body.idToken
           decoded == verify_firebase_token(TokenOf(id_token))
       IN  IF FalsyStr(id_token) THEN SetReq(s, Err(r, 400, "No token provided"))
           ELSE IF ~Truthy(decoded)
           THEN SetReq(s, Err(Effect(r, "idp_verify"), 401, "Invalid token"))
           ELSE SetReq(s, Done([r EXCEPT !.effects = {"idp_verify", "idp_user"}], 200,
                    [sessionToken |->
                        create_session_token(decoded.uid, GetOr(EmailOf(decoded), <<>>)),
                     user |-> decoded.uid]))
    /\ NoStore /\ UNCHANGED idpUpdates

\* GET /api/auth/user
GetCurrentUser(s) ==
    /\ AtHandler(s, "get_current_user")
    /\ SetReq(s, Done(Effect(reqs[s], "idp_user"), 200,
                      [user |-> UidOf(reqs[s].user)]))
    /\ NoStore /\ UNCHANGED idpUpdates

ProfileKwargs(data) ==
    LET names == {IF f = "displayName" THEN "display_name"
                  ELSE IF f = "photoURL" THEN "photo_url" ELSE "email"
                  : f \in DOMAIN data}
    IN  [k \in names |-> "v"]

\* POST /api/user/profile
UpdateProfile(s) ==
    /\ AtHandler(s, "update_profile")
    /\ \E idp_ok \in BOOLEAN :
          LET r == [reqs[s] EXCEPT !.ran = TRUE]
              uid == UidOf(r.user)
              res == update_user(uid, ProfileKwargs(r.body), idp_ok)
              r2 == IF res.called THEN Effect(r, "idp_user") ELSE r
          IN  /\ idpUpdates' = IdpAfter(uid, res)
              /\ IF res.raised THEN SetReq(s, Caught(r2, 400, "idp error"))
                 ELSE SetReq(s, Done(r2, 200, [success |-> TRUE, user |-> res.ret]))
    /\ NoStore

\* A mutant of UpdatePassword: the provider is called before the password is
\* looked at.
UpdatePasswordUnchecked(s) ==
    /\ AtHandler(s, "update_password")
    /\ \E idp_ok \in BOOLEAN :
          LET r == Effect(reqs[s], "idp_user")
              password == r.body.password
              uid == UidOf(r.user)
              res == update_user(uid, [password |-> "v"], idp_ok)
          IN  /\ idpUpdates' = IdpAfter(uid, res)
              /\ IF FalsyStr(password) \/ Len(password) < 6
                 THEN SetReq(s, Err(r, 400, "Password must be at least 6 characters"))
                 ELSE IF res.raised THEN SetReq(s, Caught(r, 400, "idp error"))
                 ELSE SetReq(s, Done(r, 200, [success |-> TRUE]))
    /\ NoStore

\* POST /api/user/password
UpdatePassword(s) ==
    /\ AtHandler(s, "update_password")
    /\ \E idp_ok \in BOOLEAN :
          LET r == [reqs[s] EXCEPT !.ran = TRUE]
              password == r.body.password
              uid == UidOf(r.user)
              res == update_user(uid, [password |-> "v"], idp_ok)
          IN  IF FalsyStr(password) \/ Len(password) < 6
              THEN /\ SetReq(s, Err(r, 400, "Password must be at least 6 characters"))
                   /\ UNCHANGED idpUpdates
              ELSE /\ idpUpdates' = IdpAfter(uid, res)
                   /\ IF res.raised
                      THEN SetReq(s, Caught(Effect(r, "idp_user"), 400, "idp error"))
                      ELSE SetReq(s, Done(Effect(r, "idp_user"), 200,
                                          [success |-> TRUE]))
    /\ NoStore

\* POST /api/csv/import, /api/csv/validate: the file checks, then the service,
\* which reports a bad file in its result instead of raising.
CsvUpload(s) ==
    /\ reqs[s].pc = "handler" /\ reqs[s].ep \in {"import_csv", "validate_csv"}
    /\ LET r == [reqs[s] EXCEPT !.ran = TRUE]
       IN  IF r.body.file = "missing" THEN SetReq(s, Err(r, 400, "No file provided"))
           ELSE IF r.ep = "import_csv" /\ r.body.file = "noname"
           THEN SetReq(s, Err(r, 400, "No file selected"))
           ELSE SetReq(s, Done(Effect(r, "csv"), 200, [result |-> "csv"]))
    /\ NoStore /\ UNCHANGED idpUpdates

\* POST /api/csv/export, /api/graphs/process: one service call, whose
\* exception becomes a 500.
ServiceCall(s) ==
    /\ reqs[s].pc = "handler" /\ reqs[s].ep \in {"export_csv", "process_graph"}
    /\ \E ok \in BOOLEAN :
          LET r == Effect(reqs[s], IF reqs[s].ep = "export_csv" THEN "csv" ELSE "graph")
          IN  IF ok THEN SetReq(s, Done(r, 200, [result |-> "file"]))
              ELSE SetReq(s, Caught(r, 500, "service error"))
    /\ NoStore /\ UNCHANGED idpUpdates

\* The three /api/history routes.  HistoryService is not part of the sources:
\* its call is an effect whose result is open (a value, False, an exception).
History(s) ==
    /\ reqs[s].pc = "handler"
    /\ reqs[s].ep \in {"get_history", "restore_version", "save_snapshot"}
    /\ \E out \in {"ok", "false", "raise"} :
          LET r0 == [reqs[s] EXCEPT !.ran = TRUE]
              r == Effect(r0, "history")
          IN  IF r0.ep = "save_snapshot" /\ FalsyId(r0.body.content)
              THEN SetReq(s, Err(r0, 400, "Content required"))
              ELSE IF out = "raise" THEN SetReq(s, Caught(r, 500, "history error"))
              ELSE IF out = "false" /\ r.ep = "restore_version"
              THEN SetReq(s, Err(r, 400, "Failed to restore"))
              ELSE SetReq(s, Done(r, 200, [result |-> "history"]))
    /\ NoStore /\ UNCHANGED idpUpdates

\* POST /api/export/document
ExportDocument(s) ==
    /\ AtHandler(s, "export_document")
    /\ \E ok \in BOOLEAN :
          LET r == [reqs[s] EXCEPT !.ran = TRUE]
              format == IF r.body.format = NoneStr THEN "markdown" ELSE r.body.format
          IN  IF format \in {"pdf", "markdown", "html"}
              THEN IF ok THEN SetReq(s, Done(Effect(r, "export"), 200, [file |-> format]))
                   ELSE SetReq(s, Caught(Effect(r, "export"), 500, "export error"))
              ELSE IF format = "json"
              THEN SetReq(s, Done(r, 200, [file |-> format]))
              ELSE SetReq(s, Err(r, 400, "Unsupported format"))
    /\ NoStore /\ UNCHANGED idpUpdates

\* GET /api/health
HealthCheck(s) ==
    /\ AtHandler(s, "health_check")
    /\ SetReq(s, Done([reqs[s] EXCEPT !.ran = TRUE], 200, [status |-> "healthy"]))
    /\ NoStore /\ UNCHANGED idpUpdates

\* GET /api/workspace/<id>: one read of the store, which may fail.
GetWorkspace(s) ==
    /\ AtHandler(s, "get_workspace")
    /\ \E ok \in BOOLEAN :
          LET r == Effect(reqs[s], "store_read")
              wid == r.body.workspace_id
          IN  IF ok THEN SetReq(s, Done(r, 200, [workspaceId |-> wid, data |-> WsNode(wid)]))
              ELSE SetReq(s, Caught(r, 500, "store error"))
    /\ NoStore /\ UNCHANGED idpUpdates

\* GET /api/user/invites
GetUserInvites(s) ==
    /\ AtHandler(s, "get_user_invites")
    /\ \E ok \in BOOLEAN :
          LET r0 == [reqs[s] EXCEPT !.ran = TRUE]
              user_email == EmailOf(r0.user)
              r == Effect(r0, "store_read")
          IN  IF FalsyStr(user_email) THEN SetReq(s, Done(r0, 200, [invites |-> <<>>]))
              ELSE IF ok
              THEN SetReq(s, Done(r, 200, [invites |-> IdxOf(SafeEmail(user_email))]))
              ELSE SetReq(s, Caught(r, 500, "store error"))
    /\ NoStore /\ UNCHANGED idpUpdates

\* A mutant of UserWorkspaces: the workspaces the user owns.
UserWorkspacesOwned(all, uid) ==
    {[id |-> w, name |-> GetOr(all[w].name, <<"Unnamed">>), role |-> "owner"]
        : w \in {x \in DOMAIN all : all[x].owner = uid}}

\* The loop of list_workspaces: id, name and role for every workspace whose
\* members hold the uid.
UserWorkspaces(all, uid) ==
    {[id |-> w, name |-> GetOr(all[w].name, <<"Unnamed">>),
      role |-> all[w].members[uid]]
        : w \in {x \in DOMAIN all : uid \in DOMAIN all[x].members}}

\* GET /api/workspaces/list
ListWorkspaces(s) ==
    /\ AtHandler(s, "list_workspaces")
    /\ \E ok \in BOOLEAN :
          LET r == Effect(reqs[s], "store_read")
              uid == UidOf(r.user)
          IN  IF ok
              THEN SetReq(s, Done(r, 200,
                                  [workspaces |-> UserWorkspaces(workspaces, uid)]))
              ELSE SetReq(s, Caught(r, 500, "store error"))
    /\ NoStore /\ UNCHANGED idpUpdates

\* POST /api/workspaces/create: one push.
CreateWorkspace(s) ==
    /\ AtHandler(s, "create_workspace")
    /\ \E ok \in BOOLEAN :
          LET r == Effect(reqs[s], "store_write")
              name == GetOr(r.body.name, <<"New Workspace">>)
              uid == UidOf(r.user)
              k == Key(nextKey)
          IN  IF ok
              THEN /\ workspaces' = PutWs(k, [name |-> name, owner |-> uid,
                                              members |-> (uid :> "owner"),
                                              invites |-> <<>>])
                   /\ nextKey' = nextKey + 1
                   /\ SetReq(s, Done(r, 200, [success |-> TRUE, workspaceId |-> k,
                                              name |-> name]))
              ELSE /\ SetReq(s, Caught(r, 500, "store error"))
                   /\ UNCHANGED <<workspaces, nextKey>>
    /\ UNCHANGED <<invitesIdx, conc, served, idpUpdates, notServer>>

\* POST /api/team/invite, up to the first store call.
InviteMember(s) ==
    /\ AtHandler(s, "invite_member")
    /\ LET r == [reqs[s] EXCEPT !.ran = TRUE]
       IN  IF FalsyStr(r.body.email) \/ FalsyId(r.body.workspaceId)
           THEN SetReq(s, Err(r, 400, "Email and Workspace ID required"))
           ELSE SetReq(s, [r EXCEPT !.pc = "inv_push"])
    /\ NoStore /\ UNCHANGED idpUpdates

\* 1. inv_ref.push({email, status: 'pending', invitedBy})
InvitePush(s) ==
    /\ reqs[s].pc = "inv_push"
    /\ LET r == Effect(reqs[s], "store_write")
           wid == r.body.workspaceId
           k == Key(nextKey)
           node == WsNode(wid)
       IN  /\ workspaces' = PutWs(wid, [node EXCEPT !.invites =
                  (k :> [email |-> r.body.email, status |-> "pending",
                         invitedBy |-> UidOnly(r.user)]) @@ @])
           /\ nextKey' = nextKey + 1
           /\ SetReq(s, [r EXCEPT !.pc = "inv_name", !.key = k])
    /\ UNCHANGED <<invitesIdx, conc, served, idpUpdates, notServer>>

\* db.reference('workspaces/<id>/name').get() or "Unnamed Workspace"
InviteReadName(s) ==
    /\ reqs[s].pc = "inv_name"
    /\ LET r == Effect(reqs[s], "store_read")
       IN  SetReq(s, [r EXCEPT !.pc = "inv_set",
                        !.wsName = IF FalsyStr(WsNode(r.body.workspaceId).name)
                                   THEN <<"Unnamed Workspace">>
                                   ELSE WsNode(r.body.workspaceId).name])
    /\ NoStore /\ UNCHANGED idpUpdates

\* 2. db.reference('invites/<safe_email>').child(key).set({...})
InviteSetIndex(s) ==
    /\ reqs[s].pc = "inv_set"
    /\ LET r == reqs[s]
       IN  /\ invitesIdx' = PutIdx(SafeEmail(r.body.email), r.key,
                  [workspaceId |-> r.body.workspaceId, workspaceName |-> r.wsName,
                   invitedBy |-> UidOnly(r.user), status |-> "pending"])
           /\ SetReq(s, Done(r, 200, [success |-> TRUE, inviteId |-> r.key]))
    /\ UNCHANGED <<workspaces, nextKey, conc, served, idpUpdates, notServer>>

\* A mutant of RespondStatus: the action is stored as it came.
RespondStatusRaw(action) == action

\* The status an action sets: 'accepted' for accept, 'rejected' otherwise.
RespondStatus(action) == IF action = "accept" THEN "accepted" ELSE "rejected"

\* POST /api/user/invites/respond, up to the first store call.
RespondToInvite(s) ==
    /\ AtHandler(s, "respond_to_invite")
    /\ LET r == [reqs[s] EXCEPT !.ran = TRUE]
           b == r.body
       IN  IF FalsyId(b.inviteId) \/ FalsyId(b.action) \/ FalsyId(b.workspaceId)
           THEN SetReq(s, Err(r, 400, "Missing required fields"))
           ELSE IF EmailOf(r.user) = Absent
           THEN \* user_email.replace on None raises AttributeError
                SetReq(s, Caught(r, 500, "'NoneType' object has no attribute 'replace'"))
           ELSE SetReq(s, [r EXCEPT !.pc = IF b.action = "accept" THEN "rsp_member"
                                           ELSE "rsp_ws"])
    /\ NoStore /\ UNCHANGED idpUpdates

\* 1. db.reference('workspaces/<id>/members').update({uid: 'member'})
RespondAddMember(s) ==
    /\ reqs[s].pc = "rsp_member"
    /\ LET r == Effect(reqs[s], "store_write")
           wid == r.body.workspaceId
           node == WsNode(wid)
       IN  /\ workspaces' = PutWs(wid, [node EXCEPT !.members =
                                           (UidOf(r.user) :> "member") @@ @])
           /\ SetReq(s, [r EXCEPT !.pc = "rsp_ws"])
    /\ UNCHANGED <<invitesIdx, nextKey, conc, served, idpUpdates, notServer>>

\* db.reference('workspaces/<id>/invites/<invite>').update({'status': ...})
RespondSetWorkspaceStatus(s) ==
    /\ reqs[s].pc = "rsp_ws"
    /\ LET r == Effect(reqs[s], "store_write")
           wid == r.body.workspaceId
           iid == r.body.inviteId
           node == WsNode(wid)
       IN  /\ workspaces' = PutWs(wid, [node EXCEPT !.invites =
                  (iid :> [WsInvite(wid, iid) EXCEPT
                              !.status = RespondStatus(r.body.action)]) @@ @])
           /\ SetReq(s, [r EXCEPT !.pc = "rsp_idx"])
    /\ UNCHANGED <<invitesIdx, nextKey, conc, served, idpUpdates, notServer>>

\* A mutant of RespondSetIndexStatus: the answer is given with the index copy
\* left as it was.
RespondSetIndexStatusSkipped(s) ==
    /\ reqs[s].pc = "rsp_idx"
    /\ SetReq(s, Done(reqs[s], 200, [success |-> TRUE]))
    /\ UNCHANGED <<workspaces, invitesIdx, nextKey, conc, served, idpUpdates, notServer>>

\* db.reference('invites/<safe_email>/<invite>').update({'status': ...})
RespondSetIndexStatus(s) ==
    /\ reqs[s].pc = "rsp_idx"
    /\ LET r == reqs[s]
           safe == SafeEmail(EmailOf(r.user))
           iid == r.body.inviteId
       IN  /\ invitesIdx' = PutIdx(safe, iid,
                  [IdxInvite(safe, iid) EXCEPT !.status = RespondStatus(r.body.action)])
           /\ SetReq(s, Done(r, 200, [success |-> TRUE]))
    /\ UNCHANGED <<workspaces, nextKey, conc, served, idpUpdates, notServer>>

StorePcs == {"inv_push", "inv_name", "inv_set", "rsp_member", "rsp_ws", "rsp_idx"}

\* A mutant of StoreFail: the except clause deletes the invite the push wrote.
StoreFailCompensating(s) ==
    /\ reqs[s].pc \in StorePcs
    /\ SetReq(s, Caught(Effect(reqs[s], "store_write"), 500, "store error"))
    /\ workspaces' =
          IF reqs[s].key = NoneStr THEN workspaces
          ELSE LET wid == reqs[s].body.workspaceId
                   inv == WsNode(wid).invites
               IN  PutWs(wid, [WsNode(wid) EXCEPT !.invites =
                          [i \in DOMAIN inv \ {reqs[s].key} |-> inv[i]]])
    /\ UNCHANGED <<invitesIdx, nextKey, conc, served, idpUpdates, notServer>>

\* A call of the store raises (the network, the service) and writes nothing:
\* the handler's except clause answers 500; what was written before stays.
StoreFail(s) ==
    /\ reqs[s].pc \in StorePcs
    /\ SetReq(s, Caught(Effect(reqs[s], IF reqs[s].pc = "inv_name" THEN "store_read"
                                     ELSE "store_write"), 500, "store error"))
    /\ NoStore /\ UNCHANGED idpUpdates

ServerInit ==
    /\ idpUpdates = {}
    /\ workspaces = <<>>
    /\ invitesIdx = <<>>
    /\ nextKey = 1
    /\ reqs = [s \in Slots |-> IdleReq]
    /\ conc = 1
    /\ served = 0
    /\ now = TicksPerSecond
    /\ jwtLib \in JwtLibs
    /\ sessTok = NoResult /\ issuedFor = NoResult /\ verifyOut = NoResult
    /\ ChartIdle /\ ExportIdle /\ UpdateUserIdle /\ CsvIdle

Next ==
    \E s \in Slots :
        \/ Receive(s)
        \/ Reply(s)
        \/ VerifyToken(s)
        \/ GetCurrentUser(s)
        \/ UpdateProfile(s)
        \/ UpdatePassword(s)
        \/ CsvUpload(s)
        \/ ServiceCall(s)
        \/ History(s)
        \/ ExportDocument(s)
        \/ HealthCheck(s)
        \/ GetWorkspace(s)
        \/ GetUserInvites(s)
        \/ ListWorkspaces(s)
        \/ CreateWorkspace(s)
        \/ InviteMember(s)
        \/ InvitePush(s)
        \/ InviteReadName(s)
        \/ InviteSetIndex(s)
        \/ RespondToInvite(s)
        \/ RespondAddMember(s)
        \/ RespondSetWorkspaceStatus(s)
        \/ RespondSetIndexStatus(s)
        \/ StoreFail(s)

Spec == ServerInit /\ [][Next]_vars

\* The team routes alone, with requests that name ids and addresses freely.
TeamEndpoints ==
    {"create_workspace", "invite_member", "respond_to_invite",
     "get_user_invites", "list_workspaces", "get_workspace"}
TeamHeaders == {Absent, <<"Bearer", " ", "fbA">>, <<"Bearer", " ", "ssB">>}
TeamReceive(s) ==
    ReceiveFrom(s, TeamEndpoints, TeamHeaders, [ep \in TeamEndpoints |-> TeamBodies(ep)])

TeamNext ==
    \E s \in Slots :
        \/ TeamReceive(s)
        \/ Reply(s)
        \/ GetWorkspace(s)
        \/ GetUserInvites(s)
        \/ ListWorkspaces(s)
        \/ CreateWorkspace(s)
        \/ InviteMember(s)
        \/ InvitePush(s)
        \/ InviteReadName(s)
        \/ InviteSetIndex(s)
        \/ RespondToInvite(s)
        \/ RespondAddMember(s)
        \/ RespondSetWorkspaceStatus(s)
        \/ RespondSetIndexStatus(s)
        \/ StoreFail(s)

SpecTeam == ServerInit /\ [][TeamNext]_vars

\* Two workers answering respond requests at once.  The store holds what a
\* create_workspace and an invite_member of user uN leave behind: workspace
\* k1 with the pending invite k2 addressed to EmailA, and its index entry.
ConcInit ==
    /\ idpUpdates = {}
    /\ workspaces =
          (Key(1) :> [name |-> <<"W">>, owner |-> "uN", members |-> ("uN" :> "owner"),
                      invites |-> (Key(2) :> [email |-> EmailA, status |-> "pending",
                                              invitedBy |-> "uN"])])
    /\ invitesIdx =
          (SafeEmail(EmailA) :>
              (Key(2) :> [workspaceId |-> Key(1), workspaceName |-> <<"W">>,
                          invitedBy |-> "uN", status |-> "pending"]))
    /\ nextKey = 3
    /\ reqs = [s \in Slots |-> IdleReq]
    /\ conc = 2
    /\ served = 0
    /\ now = TicksPerSecond
    /\ jwtLib \in JwtLibs
    /\ sessTok = NoResult /\ issuedFor = NoResult /\ verifyOut = NoResult
    /\ ChartIdle /\ ExportIdle /\ UpdateUserIdle /\ CsvIdle

ConcHeaders == {Absent, <<"Bearer", " ", "fbA">>}
ConcBodies ==
    {RespondBody(NoneStr, "accept", Key(1))}
    \cup {RespondBody(Key(2), a, Key(1)) : a \in {"accept", "reject"}}
ConcReceive(s) ==
    ReceiveFrom(s, {"respond_to_invite"}, ConcHeaders,
                [ep \in {"respond_to_invite"} |-> ConcBodies])

ConcNext ==
    \E s \in Slots :
        \/ ConcReceive(s)
        \/ Reply(s)
        \/ RespondToInvite(s)
        \/ RespondAddMember(s)
        \/ RespondSetWorkspaceStatus(s)
        \/ RespondSetIndexStatus(s)
        \/ StoreFail(s)

SpecConc == ConcInit /\ [][ConcNext]_vars

(***************************************************************************)
(* Properties of the server                                                *)
(***************************************************************************)
Active == {s \in Slots : reqs[s].pc # "idle"}

\* A header that is there and holds no space.
NoSpace(hdr) == hdr # Absent /\ \A i \in 1..Len(hdr) : hdr[i] # " "

\* C1: on every route wrapped by require_auth, a request without an
\* Authorization header, or with one that holds no space, is answered 401, its
\* handler is never invoked, and it makes no service call and no store access.
NoTokenIs401 ==
    \A s \in Active :
        LET r == reqs[s]
        IN  (Protected(r.ep) /\ (r.hdr = Absent \/ NoSpace(r.hdr)))
            => /\ r.pc = "done"
               /\ r.status = 401
               /\ ~r.ran
               /\ r.effects = {}
               /\ r.fbRet = NotCalled /\ r.ssRet = NotCalled

\* A request with the bare token as its header was turned away from the invite
\* route and left the store empty.
NoTokenWitness ==
    \E s \in Active :
        /\ reqs[s].pc = "done" /\ reqs[s].status = 401
        /\ reqs[s].ep = "invite_member" /\ reqs[s].hdr = <<"fbA">>
        /\ ~reqs[s].ran
        /\ workspaces = <<>> /\ invitesIdx = <<>>

\* The token a header carries, when it carries one.
HasToken(hdr) == hdr # Absent /\ Len(Split(hdr, " ")) >= 2
HeaderToken(hdr) == TokenOf(Split(hdr, " ")[2])

\* C2: on a wrapped route, a request that carries a token has it verified by
\* the identity provider first and as a session token only if that fails; the
\* handler runs if and only if one of the two returns claims (a non-empty
\* dict), and then request.user is exactly those claims; if both fail the
\* answer is 401 and the handler does not run.
FirebaseThenSession ==
    \A s \in Active :
        LET r == reqs[s]
            token == HeaderToken(r.hdr)
            fb == verify_firebase_token(token)
            ss == verify_session_token(token)
        IN  (Protected(r.ep) /\ HasToken(r.hdr))
            => /\ r.fbRet = fb
               /\ r.ssRet = IF Truthy(fb) THEN NotCalled ELSE ss
               /\ r.authed <=> (Truthy(fb) \/ Truthy(ss))
               /\ r.ran => r.authed
               /\ (r.authed /\ r.pc = "done") => r.ran
               /\ r.authed => /\ r.pc # "done" \/ r.status # 401
                              /\ r.user = IF Truthy(fb) THEN fb ELSE ss
               /\ ~r.authed => /\ r.pc = "done" /\ r.status = 401
                               /\ r.user = PyNone

\* A handler ran for a session token the provider refused, with the session
\* claims as request.user.
FirebaseThenSessionWitness ==
    \E s \in Active :
        /\ reqs[s].hdr = <<"Bearer", " ", "ssB">>
        /\ reqs[s].fbRet = PyNone
        /\ reqs[s].ran /\ reqs[s].pc = "done"
        /\ reqs[s].user.user_id = "uB"

\* C3: when respond {inviteId: I, action: 'accept', workspaceId: W} of user U
\* with token e-mail E is answered with no store call failed, W.members[U] is
\* 'member', W.invites[I].status and invites[E with ',' for '.'][I].status are
\* 'accepted', and the answer is {success: true}.
AcceptMakesMember ==
    \A s \in Active :
        LET r == reqs[s]
        IN  (r.ep = "respond_to_invite" /\ r.pc = "done" /\ r.status = 200
             /\ r.body.action = "accept")
            => LET W == r.body.workspaceId
                   I == r.body.inviteId
                   U == UidOf(r.user)
                   E == Replace(EmailOf(r.user), <<".">>, <<",">>)
               IN  /\ W \in DOMAIN workspaces
                   /\ U \in DOMAIN workspaces[W].members
                   /\ workspaces[W].members[U] = "member"
                   /\ I \in DOMAIN workspaces[W].invites
                   /\ workspaces[W].invites[I].status = "accepted"
                   /\ E \in DOMAIN invitesIdx
                   /\ I \in DOMAIN invitesIdx[E]
                   /\ invitesIdx[E][I].status = "accepted"
                   /\ r.resp = [success |-> TRUE]

\* The user the invite of a created workspace was addressed to accepted it.
AcceptMakesMemberWitness ==
    \E s \in Active :
        LET r == reqs[s]
        IN  /\ r.ep = "respond_to_invite" /\ r.pc = "done" /\ r.status = 200
            /\ r.body.action = "accept"
            /\ r.body.workspaceId \in DOMAIN workspaces
            /\ workspaces[r.body.workspaceId].owner = "uB"
            /\ r.body.inviteId \in DOMAIN workspaces[r.body.workspaceId].invites
            /\ workspaces[r.body.workspaceId].invites[r.body.inviteId].email
                   = EmailOf(r.user)
            /\ r.body.inviteId \in DOMAIN IdxOf(<<"a", ",", "b">>)
            /\ IdxOf(<<"a", ",", "b">>)[r.body.inviteId].workspaceId
                   = r.body.workspaceId

\* C4: when POST /api/team/invite with a non-empty email and workspaceId is
\* answered with no store call failed, the invite is in both places under the
\* one generated id K, workspaces/<workspaceId>/invites/K and
\* invites/<email with ',' for every '.'>/K, both with status 'pending', and
\* the answer's inviteId is K.
InviteDualWrite ==
    \A s \in Active :
        LET r == reqs[s]
        IN  (r.ep = "invite_member" /\ r.pc = "done" /\ r.status = 200)
            => LET K == r.key
                   W == r.body.workspaceId
                   E == Replace(r.body.email, <<".">>, <<",">>)
               IN  /\ K \in UsedKeys
                   /\ r.resp.inviteId = K
                   /\ W \in DOMAIN workspaces
                   /\ K \in DOMAIN workspaces[W].invites
                   /\ workspaces[W].invites[K].status = "pending"
                   /\ workspaces[W].invites[K].email = r.body.email
                   /\ E \in DOMAIN invitesIdx
                   /\ K \in DOMAIN invitesIdx[E]
                   /\ invitesIdx[E][K].status = "pending"
                   /\ invitesIdx[E][K].workspaceId = W
                   /\ \A i \in 1..Len(E) : E[i] # "."

\* An invite to a.b into a created workspace was answered with its id.
InviteDualWriteWitness ==
    \E s \in Active :
        LET r == reqs[s]
        IN  /\ r.ep = "invite_member" /\ r.pc = "done" /\ r.status = 200
            /\ r.body.email = EmailA
            /\ r.body.workspaceId \in DOMAIN workspaces
            /\ workspaces[r.body.workspaceId].owner # NoneStr
            /\ r.resp.inviteId = "k2"

\* What C5 counts: the store, the provider's user API, the services.
GuardedEffects ==
    {"store_read", "store_write", "idp_user", "csv", "export", "graph", "history"}

\* C5: on every /api route but /api/health and /api/auth/verify, no handler
\* runs, and none reads or writes the store, calls the provider's user API or
\* a CSV, export or graph service, for a request that did not pass
\* require_auth.
OnlyAuthenticatedEffects ==
    \A s \in Active :
        LET r == reqs[s]
        IN  (r.ep \notin {"health_check", "verify_token"}
             /\ (r.ran \/ r.effects \cap GuardedEffects # {}))
            => /\ r.authed
               /\ HasToken(r.hdr)
               /\ Truthy(r.user)
               /\ r.user \in {verify_firebase_token(HeaderToken(r.hdr)),
                              verify_session_token(HeaderToken(r.hdr))}

\* An authenticated invite wrote to the store, after a request without a
\* token had left it empty.
OnlyAuthenticatedEffectsWitness ==
    \E s \in Active :
        /\ reqs[s].ep = "invite_member"
        /\ reqs[s].authed
        /\ "store_write" \in reqs[s].effects
        /\ workspaces # <<>>

\* C12: in every handler, an exception raised inside the handler body is
\* caught at the handler's boundary and answered 500 with the body
\* {error: <the exception's text>}; no other status answers a caught exception.
FlatErrorPolicy ==
    \A s \in Active :
        reqs[s].exc
        => /\ reqs[s].pc = "done"
           /\ reqs[s].status = 500
           /\ DOMAIN reqs[s].resp = {"error"}

\* C13: GET /api/user/invites answers a user with e-mail E with exactly the
\* entries of invites/<E with ',' for '.'> whose status is 'pending', and a
\* caller whose claims carry no e-mail with the empty list.
InvitesListedArePending ==
    \A s \in Active :
        LET r == reqs[s]
        IN  (r.ep = "get_user_invites" /\ r.pc = "done" /\ r.status = 200)
            => IF FalsyStr(EmailOf(r.user)) THEN r.resp.invites = <<>>
               ELSE LET idx == IdxOf(Replace(EmailOf(r.user), <<".">>, <<",">>))
                        pending == {i \in DOMAIN idx : idx[i].status = "pending"}
                    IN  /\ DOMAIN r.resp.invites = pending
                        /\ \A i \in pending : r.resp.invites[i] = idx[i]

\* What create_workspace did in a step that answered it 200.
CreateAddsOne ==
    \A s \in Slots :
        (reqs[s].ep = "create_workspace" /\ reqs[s].pc = "handler"
         /\ reqs'[s].pc = "done" /\ reqs'[s].status = 200)
        => LET k == reqs'[s].resp.workspaceId
               U == UidOf(reqs[s].user)
           IN  /\ k \notin DOMAIN workspaces
               /\ DOMAIN workspaces' = DOMAIN workspaces \cup {k}
               /\ workspaces'[k].owner = U
               /\ workspaces'[k].members = (U :> "owner")
               /\ \A w \in DOMAIN workspaces : workspaces'[w] = workspaces[w]
               /\ invitesIdx' = invitesIdx

\* What list_workspaces answered, against the store.
ListIsMemberships ==
    \A s \in Active :
        LET r == reqs[s]
            U == UidOf(r.user)
        IN  (r.ep = "list_workspaces" /\ r.pc = "done" /\ r.status = 200)
            => /\ {x.id : x \in r.resp.workspaces}
                    = {w \in DOMAIN workspaces : U \in DOMAIN workspaces[w].members}
               /\ \A x \in r.resp.workspaces :
                     x.role = workspaces[x.id].members[U]
               /\ \A x, y \in r.resp.workspaces : x.id = y.id => x = y

\* C14: create_workspace by user U adds exactly one new workspace, with owner U
\* and members {U: 'owner'}, and leaves every other workspace as it was; after
\* any sequence of create, invite and respond requests list_workspaces answers
\* U with exactly the workspaces whose members hold U, each with U's role.
CreateAndList == [][CreateAddsOne]_vars /\ []ListIsMemberships

\* A user who joined a workspace another user created was listed it as a
\* member, and its owner was not.
CreateAndListWitness ==
    \E s \in Active :
        LET r == reqs[s]
        IN  /\ r.ep = "list_workspaces" /\ r.pc = "done" /\ r.status = 200
            /\ UidOf(r.user) = "uA"
            /\ \E x \in r.resp.workspaces :
                  /\ r.resp.workspaces = {x}
                  /\ x.role = "member"
                  /\ workspaces[x.id].owner = "uB"
                  /\ workspaces[x.id].members = ("uA" :> "member") @@ ("uB" :> "owner")

\* C15: when the store fails after invite_member's push under
\* workspaces/<W>/invites and before or in its write of
\* invites/<sanitized email>/<id>, the answer is 500 and, with no retry and no
\* delete, the store keeps the workspace-side invite and has no index entry
\* for it.
PartialInviteWrite ==
    \A s \in Active :
        LET r == reqs[s]
        IN  (r.ep = "invite_member" /\ r.key # NoneStr /\ r.pc = "done"
             /\ r.status # 200)
            => /\ r.status = 500 /\ r.exc
               /\ DOMAIN r.resp = {"error"}
               /\ r.body.workspaceId \in DOMAIN workspaces
               /\ r.key \in DOMAIN workspaces[r.body.workspaceId].invites
               /\ workspaces[r.body.workspaceId].invites[r.key]
                     = [email |-> r.body.email, status |-> "pending",
                        invitedBy |-> UidOnly(r.user)]
               /\ \A e \in DOMAIN invitesIdx : r.key \notin DOMAIN invitesIdx[e]
               /\ nextKey = 1 + Cardinality(UsedKeys)
               /\ r.key = Key(nextKey - 1)

\* The write of the index entry failed after the push into a created workspace
\* and the read of its name.
PartialInviteWriteWitness ==
    \E s \in Active :
        LET r == reqs[s]
        IN  /\ r.ep = "invite_member" /\ r.pc = "done" /\ r.status = 500
            /\ r.key = "k2" /\ r.wsName = <<"W">>
            /\ "k2" \in DOMAIN workspaces["k1"].invites
            /\ invitesIdx = <<>>

\* The e-mail in the claims of the user with a uid.
EmailOfUid(uid) ==
    CASE uid = "uA" -> EmailA
      [] uid = "uB" -> EmailC
      [] OTHER -> Absent

\* C16: a user U is in W.members only if U created W or W.invites holds an
\* invite addressed to U's e-mail that U accepted while it was pending; an
\* accept never adds a member for an invite id that W does not have or that
\* is addressed to another e-mail.  (A state shows whom an invite is addressed
\* to, not what its status was at the accept: the formula asks for the
\* addressed invite alone, which the claim implies.)
MembershipRequiresInvite ==
    \A W \in DOMAIN workspaces :
        \A U \in DOMAIN workspaces[W].members :
            \/ workspaces[W].owner = U
            \/ \E i \in DOMAIN workspaces[W].invites :
                  workspaces[W].invites[i].email = EmailOfUid(U)

\* C17: in every state reached through create_workspace, invite_member and
\* respond_to_invite, the owner uid of each workspace is a key of its members
\* map, with role 'owner'.
OwnerKeepsRole ==
    \A W \in DOMAIN workspaces :
        workspaces[W].owner # NoneStr
        => /\ workspaces[W].owner \in DOMAIN workspaces[W].members
           /\ workspaces[W].members[workspaces[W].owner] = "owner"


\* Two answered respond requests of one user about one invite of one
\* workspace, one accepting and one rejecting.
RespondPair(s1, s2) ==
    /\ s1 # s2
    /\ \A s \in {s1, s2} :
          /\ reqs[s].ep = "respond_to_invite"
          /\ reqs[s].pc = "done"
          /\ reqs[s].status = 200
    /\ reqs[s1].user = reqs[s2].user
    /\ reqs[s1].body.inviteId = reqs[s2].body.inviteId
    /\ reqs[s1].body.workspaceId = reqs[s2].body.workspaceId
    /\ reqs[s1].body.action = "accept"
    /\ reqs[s2].body.action = "reject"

\* The status of the workspace-side copy and of the index copy of the invite
\* a respond request names.
WsStatusOf(r) == WsInvite(r.body.workspaceId, r.body.inviteId).status
IdxStatusOf(r) == IdxInvite(SafeEmail(EmailOf(r.user)), r.body.inviteId).status

\* C18 as stated: once an accept and a reject of the same user on the same
\* invite have both completed without failure, whatever the order of their
\* store writes, the workspace-side status equals the index status.
ConcurrentRespondAgrees ==
    \A s1, s2 \in Slots :
        RespondPair(s1, s2) => WsStatusOf(reqs[s1]) = IdxStatusOf(reqs[s1])

\* C18, amended: once both have completed without failure each copy holds
\* 'accepted' or 'rejected', and when the later of the two ran with no other
\* request in progress both copies hold the later one's status.
ConcurrentRespondLastWins ==
    \A s1, s2 \in Slots :
        RespondPair(s1, s2) =>
            /\ WsStatusOf(reqs[s1]) \in {"accepted", "rejected"}
            /\ IdxStatusOf(reqs[s1]) \in {"accepted", "rejected"}
            /\ \A a, b \in {s1, s2} :
                  (reqs[a].seq < reqs[b].seq /\ ~reqs[b].overlapped)
                  => /\ WsStatusOf(reqs[b]) = RespondStatus(reqs[b].body.action)
                     /\ IdxStatusOf(reqs[b]) = RespondStatus(reqs[b].body.action)

\* An accept and a reject whose writes interleaved, both answered 200, and a
\* pair of copies that disagree.
ConcurrentRespondWitness ==
    \E s1, s2 \in Slots :
        /\ RespondPair(s1, s2)
        /\ reqs[s1].overlapped /\ reqs[s2].overlapped
        /\ WsStatusOf(reqs[s1]) = "rejected"
        /\ IdxStatusOf(reqs[s1]) = "accepted"


\* The statuses of every copy of every invite: the workspace-side copies by
\* (workspace, invite) and the index copies by (address key, invite).
WsStatuses ==
    [p \in {q \in (DOMAIN workspaces) \X (UsedKeys \cup {Ghost}) :
                q[2] \in DOMAIN workspaces[q[1]].invites}
        |-> workspaces[p[1]].invites[p[2]].status]
IdxStatuses ==
    [p \in {q \in (DOMAIN invitesIdx) \X (UsedKeys \cup {Ghost}) :
                q[2] \in DOMAIN invitesIdx[q[1]]}
        |-> invitesIdx[p[1]][p[2]].status]

\* A step leaves every decided status of the function of statuses f as it was.
DecidedKept(f, g) ==
    \A p \in DOMAIN f :
        f[p] \in {"accepted", "rejected"} => (p \in DOMAIN g /\ g[p] = f[p])

\* C19: an invite status, once 'accepted' or 'rejected' in either copy, is
\* changed by no later step, so the only moves are pending to accepted and
\* pending to rejected; and every status is pending, accepted or rejected.
InviteStatusTerminal ==
    /\ [][/\ DecidedKept(WsStatuses, WsStatuses')
          /\ DecidedKept(IdxStatuses, IdxStatuses')]_vars
    /\ [](\A p \in DOMAIN WsStatuses :
             WsStatuses[p] \in {"pending", "accepted", "rejected"})
    /\ [](\A p \in DOMAIN IdxStatuses :
             IdxStatuses[p] \in {"pending", "accepted", "rejected"})


\* A request whose body lacks what its route requires: invite_member without
\* email or workspaceId, respond_to_invite without inviteId, action or
\* workspaceId, update_password without a password of 6 characters,
\* verify_token without idToken.
BadInput(r) ==
    CASE r.ep = "invite_member" ->
            FalsyStr(r.body.email) \/ FalsyId(r.body.workspaceId)
      [] r.ep = "respond_to_invite" ->
            FalsyId(r.body.inviteId) \/ FalsyId(r.body.action)
            \/ FalsyId(r.body.workspaceId)
      [] r.ep = "update_password" ->
            FalsyStr(r.body.password) \/ Len(r.body.password) < 6
      [] r.ep = "verify_token" -> FalsyStr(r.body.idToken)
      [] OTHER -> FALSE

\* The request was answered 400 for its input.
Rejected400(r) == r.pc = "done" /\ r.status = 400 /\ r.ran /\ BadInput(r)

\* C20: a request answered 400 for missing or invalid input has written
\* nothing to the store and made no update call to the identity provider: the
\* step that answers it leaves the store and the provider's calls as they
\* were, and the request has no store write and no provider user call among
\* its effects.
RejectedInputNoEffect ==
    /\ [][\A s \in Slots :
             (reqs[s].pc = "handler" /\ Rejected400(reqs'[s]))
             => UNCHANGED <<workspaces, invitesIdx, nextKey, idpUpdates>>]_vars
    /\ [](\A s \in Slots :
             Rejected400(reqs[s])
             => reqs[s].effects \cap {"store_write", "idp_user"} = {})

\* An invite without an e-mail address was answered 400 while a workspace
\* exists, and neither copy of any invite was written.
RejectedInputWitness ==
    \E s \in Slots :
        /\ Rejected400(reqs[s])
        /\ reqs[s].ep = "invite_member"
        /\ reqs[s].body.email = Absent
        /\ workspaces # <<>>
        /\ \A w \in DOMAIN workspaces : workspaces[w].invites = <<>>
        /\ invitesIdx = <<>>

=============================================================================
